---------------------------- MODULE Spec2Model ----------------------------
(***************************************************************************)
(* The HTTP(S) <-> webview bridge of user-wallet (src-tauri/src/main.rs):  *)
(* handle_bridge_request, the "ts-response" listener, the shared           *)
(* PendingMap and the shared request counter; and application startup:     *)
(* the certificate bootstrap of src-tauri/src/tls.rs and the two listener  *)
(* threads spawned by the setup closure of main.                           *)
(*                                                                         *)
(* A handler slot is one run of handle_bridge_request, on either listener  *)
(* (both call it with clones of the same map, counter and window); a slot  *)
(* is reused for a new request once its previous run has returned or was   *)
(* dropped, and a new request takes the lowest free slot.                  *)
(* The webview publishing a "ts-response" event and the listener closure   *)
(* running on it are one step.                                             *)
(* The u64 request counter is modelled with a reduced width                *)
(* (CounterModulus stands for 2^64, which TLC cannot represent).           *)
(***************************************************************************)
EXTENDS Integers, FiniteSets, Sequences, TLC

\* ------------------------------------------------------------------ bounds
\* Number of handler futures that can be in flight at once.
NumHandlers == 2
\* Width of the request counter in the model: fetch_add wraps modulo this.
CounterModulus == 3

\* Number of application starts followed.
MaxStarts == 3
\* Number of sections in a stored PEM file.
MaxPemItems == 2
\* Number of connections the TLS listener accepts, and of accept errors.
MaxConns == 3
MaxAcceptErrors == 2

Handlers == 1..NumHandlers
Ids == 0..(CounterModulus - 1)
Methods == {"OPTIONS", "GET"}
ForwardOutcomes == {"ok", "serialize_failed", "emit_failed"}
\* The (status, body) pairs the webview replies with: status is any u16, and
\* 0 is no valid HTTP status.
ReplyContents == {<<404, "a">>, <<0, "b">>}

NoId == -1
\* The value of a PendingMap entry whose receiver has been dropped.
Orphan == 0

\* ------------------------------------------------------------- data types
\* struct TsResponse { request_id: u64, status: u16, body: String }
TsResponse ==
    {[request_id |-> i, status |-> c[1], body |-> c[2]] :
        i \in Ids, c \in ReplyContents}
NoTsResponse == [request_id |-> NoId, status |-> 0, body |-> ""]

\* The payload of a "ts-response" event: empty, JSON that is not a
\* TsResponse, or the JSON of a TsResponse.
Payloads ==
    [kind : {"json"}, value : TsResponse]
      \cup [kind : {"empty", "malformed"}, value : {NoTsResponse}]

\* type PendingMap = DashMap<u64, oneshot::Sender<TsResponse>>: a partial
\* function from ids to the handler slot holding the receiver (or Orphan).
\* DashMap::new() is the empty one.
EmptyMap == [i \in {} |-> Orphan]

VARIABLES
    request_counter,   \* Arc<AtomicU64>, main.rs:664
    wraps,             \* how often request_counter has wrapped around
    pending_requests,  \* Arc<PendingMap>, main.rs:662
    pc,                \* pc[r]: where handler r is in handle_bridge_request
    method,            \* method[r]: req.method()
    request_id,        \* request_id[r]: the id fetch_add returned, or NoId
    rx,                \* rx[r]: the oneshot channel of handler r
    resp,              \* resp[r]: the Response handler r returned
    exit,              \* exit[r]: the return statement handler r took
    emitted,           \* emitted[r]: handler r's "http-request" event went out
    listener_log       \* the last line the "ts-response" listener logged

\* The state of application startup (the setup closure of main, tls.rs and
\* the two listener threads) and what outlives the process.
VARIABLES
    platform,            \* cfg(target_os) of the build
    starts,              \* how often the application has been started
    disk,                \* the files at CertPaths: cert_path, key_path, cert_der_path
    trust_store,         \* the trust stores outside the process
    main_pc,             \* where the setup closure is, or "not_running"
    exit_status,         \* how the last process ended
    newly_created,       \* newly_created of ensure_localhost_tls, tls.rs:47
    tls_state,           \* tls_state of the setup closure, main.rs:665
    tls_result,          \* which step made ensure_localhost_tls return
    trust_ops,           \* trust-store commands the installer ran in this start
    subscribed,          \* the "ts-response" listener is registered
    plaintext_listener,  \* the thread of the listener on 127.0.0.1:3321
    tls_listener         \* the thread of the listener on 127.0.0.1:2121

bridge_vars ==
    <<request_counter, wraps, pending_requests, pc, method, request_id, rx,
      resp, exit, emitted, listener_log>>

startup_vars ==
    <<platform, starts, disk, trust_store, main_pc, exit_status, newly_created,
      tls_state, tls_result, trust_ops, subscribed, plaintext_listener,
      tls_listener>>

\* One call of load_rustls_config on stored files: the certificate file, the
\* key file, and what the call returned.
VARIABLES
    loader               \* [cert_file, key_file, outcome], tls.rs:98-138

\* The accept loop of the TLS listener thread and the tasks it has spawned.
VARIABLES
    connections,         \* connections[c]: the task of the c-th accepted stream
    accept_errors,       \* how often listener.accept() has returned Err
    accept_log           \* the last line the loop or one of its tasks logged

accept_vars == <<connections, accept_errors, accept_log>>

vars == <<bridge_vars, startup_vars, loader, accept_vars>>

\* ---------------------------------------------------------------- helpers
\* Response::new(body): status 200, no headers.
ResponseNew(body) == [status |-> 200, body |-> body, headers |-> {}]
NoResponse == [status |-> 0, body |-> "", headers |-> {}]

\* HeaderMap::insert: replaces the value of an existing name.
HeaderInsert(headers, name, value) ==
    {h \in headers : h[1] # name} \cup {<<name, value>>}

\* Mutant: the private-network header is left out.
apply_cors_headers_without_private_network(res) ==
    [res EXCEPT !.headers =
        HeaderInsert(
          HeaderInsert(
            HeaderInsert(
              HeaderInsert(@, "Access-Control-Allow-Origin", "*"),
              "Access-Control-Allow-Headers", "*"),
            "Access-Control-Allow-Methods", "*"),
          "Access-Control-Expose-Headers", "*")]

apply_cors_headers(res) ==
    [res EXCEPT !.headers =
        HeaderInsert(
          HeaderInsert(
            HeaderInsert(
              HeaderInsert(
                HeaderInsert(@, "Access-Control-Allow-Origin", "*"),
                "Access-Control-Allow-Headers", "*"),
              "Access-Control-Allow-Methods", "*"),
            "Access-Control-Expose-Headers", "*"),
          "Access-Control-Allow-Private-Network", "true")]

\* Mutant: the u16 is taken as the status code without validation.
StatusFromU16Unchecked(status) == status

\* StatusCode::from_u16(status).unwrap_or(StatusCode::OK): from_u16 accepts
\* 100..=999.
StatusFromU16(status) ==
    IF status >= 100 /\ status < 1000 THEN status ELSE 200

\* Mutant: the counter is read with load, not advanced with fetch_add.
FetchAddLoadOnly(counter) == counter

\* request_counter.fetch_add(1, Ordering::Relaxed): the new counter value.
FetchAdd(counter) == (counter + 1) % CounterModulus

\* oneshot channel states.
RxNone == [state |-> "none", value |-> NoTsResponse]
RxOpen == [state |-> "open", value |-> NoTsResponse]
RxClosed == [state |-> "closed", value |-> NoTsResponse]
RxSent(v) == [state |-> "sent", value |-> v]

\* Dropping a oneshot::Sender that was never used closes the channel of the
\* handler that holds the receiver.
DropSender(chans, owner) ==
    IF owner \in Handlers /\ chans[owner].state = "open"
    THEN [chans EXCEPT ![owner] = RxClosed]
    ELSE chans

\* Mutant: dropping handler r's receiver takes its sender out of the map.
DropReceiverRemovesEntry(map, r) ==
    [i \in {k \in DOMAIN map : map[k] # r} |-> map[i]]

\* Dropping handler r's receiver: a sender still in the map stays there, and
\* a later send on it fails.
DropReceiver(map, r) ==
    [i \in DOMAIN map |-> IF map[i] = r THEN Orphan ELSE map[i]]

\* Mutant: the sender is stored under the next counter value, not under the
\* id the request was given.
MapInsertNextKey(map, key, value) ==
    [i \in DOMAIN map \cup {FetchAdd(key)} |->
        IF i = FetchAdd(key) THEN value ELSE map[i]]

\* DashMap::insert(key, value): an existing value for the key is replaced.
MapInsert(map, key, value) ==
    [i \in DOMAIN map \cup {key} |-> IF i = key THEN value ELSE map[i]]

\* Mutant: remove looks the key up and leaves its entry in the map.
MapRemoveKeepsEntry(map, key) == map

\* DashMap::remove(&key).
MapRemove(map, key) == [i \in DOMAIN map \ {key} |-> map[i]]

\* Mutant: the listener resolves the oldest pending entry, whatever id the
\* reply names.
LookupKeyOldest(ts_response) ==
    IF DOMAIN pending_requests = {}
    THEN ts_response.request_id
    ELSE CHOOSE i \in DOMAIN pending_requests :
            \A k \in DOMAIN pending_requests : i <= k

\* Mutant: a reply whose id is unknown is given to the oldest pending entry.
LookupKeyFallback(ts_response) ==
    IF ts_response.request_id \in DOMAIN pending_requests
    THEN ts_response.request_id
    ELSE LookupKeyOldest(ts_response)

\* The key the "ts-response" listener looks up and removes.
LookupKey(ts_response) == ts_response.request_id

\* Mutant: the listener looks the sender up and leaves the entry in the map.
ListenerRemoveKeepsEntry(map, key) == map

\* pending_requests.remove(&ts_response.request_id) in the listener.
ListenerRemove(map, key) == MapRemove(map, key)

\* A line the listener writes with eprintln!, and the request id it names.
LogLine(line, id) == [line |-> line, request_id |-> id]

\* ------------------------------------------------------------------- Init
Init ==
    /\ request_counter = 1
    /\ wraps = 0
    /\ pending_requests = EmptyMap
    /\ pc = [r \in Handlers |-> "idle"]
    /\ method = [r \in Handlers |-> "GET"]
    /\ request_id = [r \in Handlers |-> NoId]
    /\ rx = [r \in Handlers |-> RxNone]
    /\ resp = [r \in Handlers |-> NoResponse]
    /\ exit = [r \in Handlers |-> "none"]
    /\ emitted = [r \in Handlers |-> FALSE]
    /\ listener_log = LogLine("none", NoId)

\* handler r returns res through the return statement `how`; its receiver
\* (if any) is dropped with the future.
Return(r, res, how, map, chans) ==
    /\ pc' = [pc EXCEPT ![r] = "done"]
    /\ resp' = [resp EXCEPT ![r] = res]
    /\ exit' = [exit EXCEPT ![r] = how]
    /\ pending_requests' = DropReceiver(map, r)
    /\ rx' = chans

\* ---------------------------------------------------------------- actions
\* Mutant: the id is allocated before the OPTIONS check.
HandleRequestCountsOptions(r, m) ==
    /\ pc[r] \in {"idle", "done"}
    /\ \A q \in Handlers : q < r => pc[q] \notin {"idle", "done"}
    /\ method' = [method EXCEPT ![r] = m]
    /\ emitted' = [emitted EXCEPT ![r] = FALSE]
    /\ request_counter' = FetchAdd(request_counter)
    /\ wraps' = IF FetchAdd(request_counter) < request_counter
                THEN wraps + 1 ELSE wraps
    /\ IF m = "OPTIONS"
       THEN /\ request_id' = [request_id EXCEPT ![r] = NoId]
            /\ Return(r, apply_cors_headers(ResponseNew("")), "options",
                      pending_requests, [rx EXCEPT ![r] = RxNone])
            /\ UNCHANGED listener_log
       ELSE /\ request_id' = [request_id EXCEPT ![r] = request_counter]
            /\ pc' = [pc EXCEPT ![r] = "reading"]
            /\ rx' = [rx EXCEPT ![r] = RxNone]
            /\ resp' = [resp EXCEPT ![r] = NoResponse]
            /\ exit' = [exit EXCEPT ![r] = "none"]
            /\ UNCHANGED <<pending_requests, listener_log>>
    /\ UNCHANGED <<startup_vars, loader, accept_vars>>

\* A request arrives and handle_bridge_request starts: the OPTIONS
\* short-circuit, or fetch_add and the wait for the body.
HandleRequest(r, m) ==
    /\ pc[r] \in {"idle", "done"}
    /\ \A q \in Handlers : q < r => pc[q] \notin {"idle", "done"}
    /\ method' = [method EXCEPT ![r] = m]
    /\ emitted' = [emitted EXCEPT ![r] = FALSE]
    /\ IF m = "OPTIONS"
       THEN /\ request_id' = [request_id EXCEPT ![r] = NoId]
            /\ Return(r, apply_cors_headers(ResponseNew("")), "options",
                      pending_requests, [rx EXCEPT ![r] = RxNone])
            /\ UNCHANGED <<request_counter, wraps, listener_log>>
       ELSE /\ request_id' = [request_id EXCEPT ![r] = request_counter]
            /\ request_counter' = FetchAdd(request_counter)
            /\ wraps' = IF FetchAdd(request_counter) < request_counter
                        THEN wraps + 1 ELSE wraps
            /\ pc' = [pc EXCEPT ![r] = "reading"]
            /\ rx' = [rx EXCEPT ![r] = RxNone]
            /\ resp' = [resp EXCEPT ![r] = NoResponse]
            /\ exit' = [exit EXCEPT ![r] = "none"]
            /\ UNCHANGED <<pending_requests, listener_log>>
    /\ UNCHANGED <<startup_vars, loader, accept_vars>>

\* Mutant: the channel is registered before the body is read, and the 400
\* path leaves the entry behind.
ReadBodyErrRegistered(r) ==
    /\ pc[r] = "reading"
    /\ Return(r,
              apply_cors_headers(
                [ResponseNew("Failed to read request body")
                   EXCEPT !.status = 400]),
              "bad_request",
              MapInsert(pending_requests, request_id[r], r), rx)
    /\ UNCHANGED <<request_counter, wraps, method, request_id, emitted,
                   listener_log>>
    /\ UNCHANGED <<startup_vars, loader, accept_vars>>

\* hyper::body::to_bytes(...).await fails: 400.
ReadBodyErr(r) ==
    /\ pc[r] = "reading"
    /\ Return(r,
              apply_cors_headers(
                [ResponseNew("Failed to read request body")
                   EXCEPT !.status = 400]),
              "bad_request", pending_requests, rx)
    /\ UNCHANGED <<request_counter, wraps, method, request_id, emitted,
                   listener_log>>
    /\ UNCHANGED <<startup_vars, loader, accept_vars>>

\* Mutant: the channel is created after the body is read, and the sender is
\* not yet put into the table.
ReadBodyOkDefersInsert(r) ==
    /\ pc[r] = "reading"
    /\ rx' = [rx EXCEPT ![r] = RxOpen]
    /\ pc' = [pc EXCEPT ![r] = "inserted"]
    /\ UNCHANGED <<request_counter, wraps, pending_requests, method,
                   request_id, resp, exit, emitted, listener_log>>
    /\ UNCHANGED <<startup_vars, loader, accept_vars>>

\* The body is read: oneshot::channel() and pending_requests.insert.
ReadBodyOk(r) ==
    /\ pc[r] = "reading"
    /\ LET old == IF request_id[r] \in DOMAIN pending_requests
                  THEN pending_requests[request_id[r]] ELSE Orphan
       IN /\ pending_requests' = MapInsert(pending_requests, request_id[r], r)
          /\ rx' = [DropSender(rx, old) EXCEPT ![r] = RxOpen]
    /\ pc' = [pc EXCEPT ![r] = "inserted"]
    /\ UNCHANGED <<request_counter, wraps, method, request_id, resp, exit,
                   emitted, listener_log>>
    /\ UNCHANGED <<startup_vars, loader, accept_vars>>

\* Mutant: the failure paths return 500 without pending_requests.remove.
FailAfterInsertLeak(r, how) ==
    /\ Return(r,
              apply_cors_headers(
                [ResponseNew("Internal Server Error") EXCEPT !.status = 500]),
              how, pending_requests, rx)
    /\ UNCHANGED <<request_counter, wraps, method, request_id, emitted,
                   listener_log>>

\* The two failure paths after the insert: pending_requests.remove and 500.
FailAfterInsert(r, how) ==
    LET owner == IF request_id[r] \in DOMAIN pending_requests
                 THEN pending_requests[request_id[r]] ELSE Orphan
    IN /\ Return(r,
                 apply_cors_headers(
                   [ResponseNew("Internal Server Error")
                      EXCEPT !.status = 500]),
                 how,
                 MapRemove(pending_requests, request_id[r]),
                 DropSender(rx, owner))
       /\ UNCHANGED <<request_counter, wraps, method, request_id, emitted,
                      listener_log>>

\* serde_json::to_string(&event_payload) and, if that succeeds,
\* main_window.emit("http-request", event_json). outcome is "ok" or the
\* failure taken.
Forward(r, outcome) ==
    /\ pc[r] = "inserted"
    /\ IF outcome = "ok"
       THEN /\ pc' = [pc EXCEPT ![r] = "awaiting"]
            /\ emitted' = [emitted EXCEPT ![r] = TRUE]
            /\ UNCHANGED <<request_counter, wraps, pending_requests, method,
                           request_id, rx, resp, exit, listener_log>>
       ELSE FailAfterInsert(r, outcome)
    /\ UNCHANGED <<startup_vars, loader, accept_vars>>

\* Mutant: the arms of the match are swapped, a reply is answered as a
\* closed channel.
AwaitSwapped(r) ==
    /\ pc[r] = "awaiting"
    /\ rx[r].state \in {"sent", "closed"}
    /\ Return(r,
              apply_cors_headers(
                [ResponseNew("Gateway Timeout") EXCEPT !.status = 504]),
              "gateway_timeout", pending_requests, rx)
    /\ UNCHANGED <<request_counter, wraps, method, request_id, emitted,
                   listener_log>>
    /\ UNCHANGED <<startup_vars, loader, accept_vars>>

\* Mutant: a closed channel does not wake the handler.
AwaitIgnoresClose(r) ==
    /\ pc[r] = "awaiting"
    /\ rx[r].state = "sent"
    /\ Return(r,
              apply_cors_headers(
                [ResponseNew(rx[r].value.body)
                   EXCEPT !.status = StatusFromU16(rx[r].value.status)]),
              "reply", pending_requests, rx)
    /\ UNCHANGED <<request_counter, wraps, method, request_id, emitted,
                   listener_log>>
    /\ UNCHANGED <<startup_vars, loader, accept_vars>>

\* match rx.await: Ok(ts_response) once a value was sent, Err once the
\* sender was dropped without one.
Await(r) ==
    /\ pc[r] = "awaiting"
    /\ rx[r].state \in {"sent", "closed"}
    /\ IF rx[r].state = "sent"
       THEN Return(r,
                   apply_cors_headers(
                     [ResponseNew(rx[r].value.body)
                        EXCEPT !.status = StatusFromU16(rx[r].value.status)]),
                   "reply", pending_requests, rx)
       ELSE Return(r,
                   apply_cors_headers(
                     [ResponseNew("Gateway Timeout") EXCEPT !.status = 504]),
                   "gateway_timeout", pending_requests, rx)
    /\ UNCHANGED <<request_counter, wraps, method, request_id, emitted,
                   listener_log>>
    /\ UNCHANGED <<startup_vars, loader, accept_vars>>

\* Mutant: dropping the handler also takes its entry out of the table (a
\* drop guard).
DisconnectRemovesEntry(r) ==
    /\ pc[r] \in {"reading", "awaiting"}
    /\ pc' = [pc EXCEPT ![r] = "idle"]
    /\ pending_requests' = MapRemove(pending_requests, request_id[r])
    /\ rx' = [rx EXCEPT ![r] = RxNone]
    /\ request_id' = [request_id EXCEPT ![r] = NoId]
    /\ emitted' = [emitted EXCEPT ![r] = FALSE]
    /\ UNCHANGED <<request_counter, wraps, method, resp, exit, listener_log>>
    /\ UNCHANGED <<startup_vars, loader, accept_vars>>

\* The caller disconnects while the handler is suspended (reading the body
\* or awaiting the reply): hyper drops the future and with it the receiver.
Disconnect(r) ==
    /\ pc[r] \in {"reading", "awaiting"}
    /\ pc' = [pc EXCEPT ![r] = "idle"]
    /\ pending_requests' = DropReceiver(pending_requests, r)
    /\ rx' = [rx EXCEPT ![r] = RxNone]
    /\ request_id' = [request_id EXCEPT ![r] = NoId]
    /\ emitted' = [emitted EXCEPT ![r] = FALSE]
    /\ UNCHANGED <<request_counter, wraps, method, resp, exit, listener_log>>
    /\ UNCHANGED <<startup_vars, loader, accept_vars>>

\* Mutant: a payload that does not parse makes the listener give up on every
\* pending request: the table is cleared and the senders in it are dropped.
OnTsResponseClearsOnParseFailure(payload) ==
    /\ IF payload.kind = "empty"
       THEN /\ listener_log' = LogLine("no_payload", NoId)
            /\ UNCHANGED <<pending_requests, rx>>
       ELSE IF payload.kind = "malformed"
       THEN /\ listener_log' = LogLine("parse_failed", NoId)
            /\ pending_requests' = EmptyMap
            /\ rx' = [r \in Handlers |->
                        IF /\ rx[r].state = "open"
                           /\ \E i \in DOMAIN pending_requests :
                                 pending_requests[i] = r
                        THEN RxClosed ELSE rx[r]]
       ELSE IF LookupKey(payload.value) \in DOMAIN pending_requests
       THEN LET key == LookupKey(payload.value)
                owner == pending_requests[key]
            IN /\ pending_requests' = ListenerRemove(pending_requests, key)
               /\ IF owner \in Handlers
                  THEN /\ rx' = [rx EXCEPT ![owner] = RxSent(payload.value)]
                       /\ UNCHANGED listener_log
                  ELSE /\ listener_log' = LogLine("send_failed", key)
                       /\ UNCHANGED rx
       ELSE /\ listener_log' =
                  LogLine("unknown_request_id", payload.value.request_id)
            /\ UNCHANGED <<pending_requests, rx>>
    /\ UNCHANGED <<request_counter, wraps, pc, method, request_id, resp, exit,
                   emitted>>
    /\ UNCHANGED <<startup_vars, loader, accept_vars>>

\* Mutant: the listener checks that the receiver is still there before it
\* removes the entry, and leaves the entry of a disconnected caller alone.
OnTsResponseKeepsOrphan(payload) ==
    /\ IF payload.kind = "empty"
       THEN /\ listener_log' = LogLine("no_payload", NoId)
            /\ UNCHANGED <<pending_requests, rx>>
       ELSE IF payload.kind = "malformed"
       THEN /\ listener_log' = LogLine("parse_failed", NoId)
            /\ UNCHANGED <<pending_requests, rx>>
       ELSE IF LookupKey(payload.value) \in DOMAIN pending_requests
       THEN LET key == LookupKey(payload.value)
                owner == pending_requests[key]
            IN IF owner \in Handlers
               THEN /\ pending_requests' = ListenerRemove(pending_requests, key)
                    /\ rx' = [rx EXCEPT ![owner] = RxSent(payload.value)]
                    /\ UNCHANGED listener_log
               ELSE /\ listener_log' = LogLine("send_failed", key)
                    /\ UNCHANGED <<pending_requests, rx>>
       ELSE /\ listener_log' =
                  LogLine("unknown_request_id", payload.value.request_id)
            /\ UNCHANGED <<pending_requests, rx>>
    /\ UNCHANGED <<request_counter, wraps, pc, method, request_id, resp, exit,
                   emitted>>
    /\ UNCHANGED <<startup_vars, loader, accept_vars>>

\* The webview publishes a "ts-response" event and the closure given to
\* main_window.listen("ts-response", ...) runs on its payload.
OnTsResponse(payload) ==
    /\ IF payload.kind = "empty"
       THEN /\ listener_log' = LogLine("no_payload", NoId)
            /\ UNCHANGED <<pending_requests, rx>>
       ELSE IF payload.kind = "malformed"
       THEN /\ listener_log' = LogLine("parse_failed", NoId)
            /\ UNCHANGED <<pending_requests, rx>>
       ELSE IF LookupKey(payload.value) \in DOMAIN pending_requests
       THEN LET key == LookupKey(payload.value)
                owner == pending_requests[key]
            IN /\ pending_requests' = ListenerRemove(pending_requests, key)
               /\ IF owner \in Handlers
                  THEN /\ rx' = [rx EXCEPT ![owner] = RxSent(payload.value)]
                       /\ UNCHANGED listener_log
                  ELSE /\ listener_log' = LogLine("send_failed", key)
                       /\ UNCHANGED rx
       ELSE /\ listener_log' =
                  LogLine("unknown_request_id", payload.value.request_id)
            /\ UNCHANGED <<pending_requests, rx>>
    /\ UNCHANGED <<request_counter, wraps, pc, method, request_id, resp, exit,
                   emitted>>
    /\ UNCHANGED <<startup_vars, loader, accept_vars>>

\* ------------------------------------------------------- specifications
HandlerStep(r) ==
    \/ ReadBodyOk(r)
    \/ ReadBodyErr(r)
    \/ \E outcome \in ForwardOutcomes : Forward(r, outcome)
    \/ Await(r)

Environment ==
    \/ \E r \in Handlers : Disconnect(r)
    \/ \E payload \in Payloads : OnTsResponse(payload)

\* ---------------------------------------------- certificate bootstrap data
\* #[cfg(target_os = ...)] selects one of the three trust installers.
Platforms == {"macos", "windows", "linux"}

\* The content of a file or of a trust-store slot: Absent when there is none,
\* Truncated for a file that exists without usable content, and g >= 1 for
\* the certificate (or its key) generated in the g-th start.
Absent == -1
Truncated == 0

\* CertPaths before the first start: none of the three files exists.
NoFiles == [cert |-> Absent, key |-> Absent, der |-> Absent]

\* The trust stores: os is the login keychain (macOS), the Root store
\* (Windows) or the p11-kit anchors (Linux); ca_file is
\* ~/.local/share/ca-certificates/metanet-localhost.crt and nss the entry
\* labelled CERT_LABEL in ~/.pki/nssdb (both Linux only).
NoTrust == [os |-> Absent, ca_file |-> Absent, nss |-> Absent]

\* How generate_certificate ends: Ok, an rcgen error before anything is
\* written, or the failure of one fs::write, either in creating the file
\* (the file stays as it was) or in writing to it (the file is left
\* truncated).
GenerateOutcomes ==
    {"ok", "rcgen_failed",
     "cert_create_failed", "cert_write_failed",
     "key_create_failed", "key_write_failed",
     "der_create_failed", "der_write_failed"}

\* What the trust installer finds: whether HOME is set, whether the external
\* tools (security, certutil, trust) can be run and exit with success,
\* whether ~/.pki/nssdb exists, and whether the local CA directory can be
\* created and copied into.
TrustEnvs ==
    [home : BOOLEAN, tools : {"ok", "missing", "nonzero"}, nssdb : BOOLEAN,
     ca_dir : {"ok", "mkdir_failed", "copy_failed"}]

\* How a listener thread gets on: its runtime is not built (expect panics),
\* the bind fails, or the listener is bound.
ThreadOutcomes == {"runtime_failed", "bind_failed", "bound"}

\* generate_certificate(&paths) in start g: the files afterwards and whether
\* it returned Ok. The three files are written in the order cert, key, der,
\* and the first failure returns.
generate_certificate(files, g, outcome) ==
    LET step == CASE outcome = "rcgen_failed" -> 0
                  [] outcome \in {"cert_create_failed", "cert_write_failed"} -> 1
                  [] outcome \in {"key_create_failed", "key_write_failed"} -> 2
                  [] outcome \in {"der_create_failed", "der_write_failed"} -> 3
                  [] OTHER -> 4
        Written(n, old) ==
            IF step > n THEN g
            ELSE IF step = n /\ outcome \in {"cert_write_failed",
                                             "key_write_failed",
                                             "der_write_failed"}
            THEN Truncated
            ELSE old
    IN [files |-> [cert |-> Written(1, files.cert),
                   key |-> Written(2, files.key),
                   der |-> Written(3, files.der)],
        ok |-> outcome = "ok"]

\* --------------------------------------------------------- stored PEM files
\* A section of a PEM file: its label and what its body is: the DER the
\* label names, bytes that decode but are no such thing, or text that is not
\* base64 (rustls_pemfile then returns Err for the whole file).
PemSection(label, body) == [label |-> label, body |-> body]

\* A file: whether it exists, and its sections in order.
PemFile(sections) == [exists |-> TRUE, sections |-> sections]
NoPemFile == [exists |-> FALSE, sections |-> <<>>]

\* What generate_certificate writes: cert.serialize_pem() is one CERTIFICATE
\* section, cert.serialize_private_key_pem() one PKCS#8 PRIVATE KEY section.
GeneratedCertPem == PemFile(<<PemSection("CERTIFICATE", "der")>>)
GeneratedKeyPem == PemFile(<<PemSection("PRIVATE KEY", "der")>>)

\* The PEM file behind a file content of the disk: none, one without
\* sections, or the one generate_certificate wrote.
StoredPem(content, generated) ==
    IF content = Absent THEN NoPemFile
    ELSE IF content = Truncated THEN PemFile(<<>>)
    ELSE generated

\* The sections a certificate file, and a key file, may hold.
CertSections ==
    {PemSection("CERTIFICATE", "der"), PemSection("PRIVATE KEY", "der"),
     PemSection("CERTIFICATE", "not_base64")}
KeySections ==
    {PemSection("PRIVATE KEY", "der"), PemSection("PRIVATE KEY", "junk"),
     PemSection("RSA PRIVATE KEY", "der"), PemSection("RSA PRIVATE KEY", "junk"),
     PemSection("CERTIFICATE", "der"), PemSection("PRIVATE KEY", "not_base64")}

SeqsUpTo(S, n) == UNION {[1..k -> S] : k \in 0..n}
CertFiles == {NoPemFile} \cup {PemFile(s) : s \in SeqsUpTo(CertSections, MaxPemItems)}
KeyFiles == {NoPemFile} \cup {PemFile(s) : s \in SeqsUpTo(KeySections, MaxPemItems)}

\* rustls_pemfile fails on a file when a section cannot be decoded.
Undecodable(file) ==
    \E i \in 1..Len(file.sections) : file.sections[i].body = "not_base64"

\* rustls_pemfile::certs / pkcs8_private_keys / rsa_private_keys: the
\* sections with the label, in file order; other sections are skipped.
SectionsLabelled(file, label) ==
    SelectSeq(file.sections, LAMBDA x : x.label = label)

\* Mutant: no second pass over the key file for RSA keys.
private_keys_without_fallback(key_file) ==
    [keys |-> SectionsLabelled(key_file, "PRIVATE KEY"),
     rsa_consulted |-> FALSE]

\* let mut keys = pkcs8_private_keys(..); if keys.is_empty() { keys =
\* rsa_private_keys(..) }: the keys, and whether the file was read again.
private_keys(key_file) ==
    IF SectionsLabelled(key_file, "PRIVATE KEY") # <<>>
    THEN [keys |-> SectionsLabelled(key_file, "PRIVATE KEY"),
          rsa_consulted |-> FALSE]
    ELSE [keys |-> SectionsLabelled(key_file, "RSA PRIVATE KEY"),
          rsa_consulted |-> TRUE]

\* The outcome of a load: the Ok or the Err it returned, and whether the RSA
\* pass over the key file was made.
Loaded(result, rsa_consulted) ==
    [result |-> result, rsa_consulted |-> rsa_consulted]
NotLoaded == Loaded("none", FALSE)

\* load_rustls_config on the two PEM files: certificate chain, private keys
\* with the RSA fallback, first key, ServerConfig::with_single_cert (which
\* rejects a key it cannot use).
load_pem(cert_file, key_file) ==
    IF ~cert_file.exists THEN Loaded("open_cert_failed", FALSE)
    ELSE IF Undecodable(cert_file) THEN Loaded("parse_cert_failed", FALSE)
    ELSE IF SectionsLabelled(cert_file, "CERTIFICATE") = <<>>
    THEN Loaded("no_certificates", FALSE)
    ELSE IF ~key_file.exists THEN Loaded("open_key_failed", FALSE)
    ELSE IF Undecodable(key_file) THEN Loaded("parse_key_failed", FALSE)
    ELSE LET found == private_keys(key_file)
         IN IF found.keys = <<>>
            THEN Loaded("no_private_key", found.rsa_consulted)
            ELSE IF Head(found.keys).body # "der"
            THEN Loaded("build_failed", found.rsa_consulted)
            ELSE Loaded("ok", found.rsa_consulted)

\* load_rustls_config(&paths) on the files of the disk: Ok when the
\* certificate file yields a certificate chain and the key file a private
\* key.
load_rustls_config(files) ==
    load_pem(StoredPem(files.cert, GeneratedCertPem),
             StoredPem(files.key, GeneratedKeyPem)).result

\* No call of load_rustls_config on files other than the disk's.
NoLoad == [cert_file |-> NoPemFile, key_file |-> NoPemFile, outcome |-> NotLoaded]

\* The result of a trust installer: whether it returned Ok, the trust
\* stores afterwards and the trust-store commands it ran.
TrustResult(ok, store, ops) == [ok |-> ok, store |-> store, ops |-> ops]

\* A tool given a certificate file succeeds when it can be run, exits with
\* success and the file holds a certificate.
ToolInstalls(env, content) == env.tools = "ok" /\ content >= 1

\* trust_on_macos(cert_path, newly_created).
trust_on_macos(files, store, newly, env) ==
    IF ~newly /\ env.tools = "ok" /\ store.os # Absent
    THEN TrustResult(TRUE, store, {})
    ELSE IF ~env.home
    THEN TrustResult(FALSE, store, {})
    ELSE TrustResult(TRUE,
                     IF ToolInstalls(env, files.cert)
                     THEN [store EXCEPT !.os = files.cert] ELSE store,
                     {"security add-trusted-cert"})

\* trust_on_windows(cert_der, newly_created).
trust_on_windows(files, store, newly, env) ==
    IF ~newly
    THEN TrustResult(TRUE, store, {})
    ELSE TrustResult(TRUE,
                     IF ToolInstalls(env, files.der)
                     THEN [store EXCEPT !.os = files.der] ELSE store,
                     {"certutil -addstore"})

\* trust_chrome_on_linux(cert_path).
trust_chrome_on_linux(files, store, env) ==
    IF ~env.home
    THEN TrustResult(FALSE, store, {})
    ELSE IF ~env.nssdb \/ env.tools = "missing"
    THEN TrustResult(TRUE, store, {})
    ELSE TrustResult(TRUE,
                     IF env.tools = "ok"
                     THEN [store EXCEPT !.nss = IF files.cert >= 1
                                                 THEN files.cert ELSE Absent]
                     ELSE store,
                     {"certutil -D", "certutil -A"})

\* trust_on_linux(cert_path, newly_created).
trust_on_linux(files, store, newly, env) ==
    IF ~env.home
    THEN TrustResult(FALSE, store, {})
    ELSE LET copying ==
                 env.ca_dir # "mkdir_failed" /\ (newly \/ store.ca_file = Absent)
             copied ==
                 IF copying /\ env.ca_dir = "ok"
                 THEN [store EXCEPT !.ca_file = files.cert] ELSE store
             anchoring == env.tools # "missing"
             anchored ==
                 IF anchoring /\ ToolInstalls(env, files.cert)
                 THEN [copied EXCEPT !.os = files.cert] ELSE copied
             chrome == trust_chrome_on_linux(files, anchored, env)
         IN TrustResult(chrome.ok, chrome.store,
                        (IF copying THEN {"fs::copy"} ELSE {})
                          \cup (IF anchoring THEN {"trust anchor"} ELSE {})
                          \cup chrome.ops)

\* trust_certificate(&paths, newly_created): the installer of the platform.
trust_certificate(os, files, store, newly, env) ==
    CASE os = "macos" -> trust_on_macos(files, store, newly, env)
      [] os = "windows" -> trust_on_windows(files, store, newly, env)
      [] os = "linux" -> trust_on_linux(files, store, newly, env)

\* What ensure_localhost_tls leaves behind, and the step that ended it.
Ensured(files, store, newly, ops, result) ==
    [disk |-> files, store |-> store, newly_created |-> newly, ops |-> ops,
     result |-> result]

\* The existence check of ensure_localhost_tls (tls.rs:48): generation is
\* needed when cert_path or key_path does not exist.
NeedsGeneration(files) == files.cert = Absent \/ files.key = Absent

\* Mutant: the TLS context is loaded before the trust installer runs.
ensure_localhost_tls_loads_first(files, store, g, os, dir_ok, gen, env) ==
    IF ~dir_ok
    THEN Ensured(files, store, FALSE, {}, "dir_failed")
    ELSE LET needs == NeedsGeneration(files)
             made == IF needs
                     THEN generate_certificate(files, g, gen)
                     ELSE [files |-> files, ok |-> TRUE]
             trusted == trust_certificate(os, made.files, store, needs, env)
         IN IF ~made.ok
            THEN Ensured(made.files, store, FALSE, {}, "generate_failed")
            ELSE IF load_rustls_config(made.files) # "ok"
            THEN Ensured(made.files, store, needs, {}, "load_failed")
            ELSE Ensured(made.files, trusted.store, needs, trusted.ops,
                         IF trusted.ok THEN "ok" ELSE "trust_failed")

\* ensure_localhost_tls(app) in start g on platform os: directory, existence
\* check and generation, trust installation, TLS context load; each of them
\* returns early with `?`.
ensure_localhost_tls(files, store, g, os, dir_ok, gen, env) ==
    IF ~dir_ok
    THEN Ensured(files, store, FALSE, {}, "dir_failed")
    ELSE LET needs == NeedsGeneration(files)
             made == IF needs
                     THEN generate_certificate(files, g, gen)
                     ELSE [files |-> files, ok |-> TRUE]
             trusted == trust_certificate(os, made.files, store, needs, env)
         IN IF ~made.ok
            THEN Ensured(made.files, store, FALSE, {}, "generate_failed")
            ELSE IF ~trusted.ok
            THEN Ensured(made.files, trusted.store, needs, trusted.ops,
                         "trust_failed")
            ELSE Ensured(made.files, trusted.store, needs, trusted.ops,
                         IF load_rustls_config(made.files) = "ok"
                         THEN "ok" ELSE "load_failed")

\* ------------------------------------------------------ application startup
\* The application is launched: a new process enters the setup closure.
Launch ==
    /\ main_pc = "not_running"
    /\ starts < MaxStarts
    /\ starts' = starts + 1
    /\ main_pc' = "ensure_tls"
    /\ exit_status' = "none"
    /\ newly_created' = FALSE
    /\ tls_state' = "None"
    /\ tls_result' = "none"
    /\ trust_ops' = {}
    /\ subscribed' = FALSE
    /\ plaintext_listener' = "not_spawned"
    /\ tls_listener' = "not_spawned"
    /\ UNCHANGED <<platform, disk, trust_store>>
    /\ UNCHANGED <<bridge_vars, loader, accept_vars>>

\* let tls_state = match ensure_localhost_tls(&app.handle()) { ... }
EnsureLocalhostTls(dir_ok, gen, env) ==
    /\ main_pc = "ensure_tls"
    /\ LET done == ensure_localhost_tls(disk, trust_store, starts, platform,
                                        dir_ok, gen, env)
       IN /\ disk' = done.disk
          /\ trust_store' = done.store
          /\ newly_created' = done.newly_created
          /\ trust_ops' = done.ops
          /\ tls_result' = done.result
          /\ tls_state' = IF done.result = "ok" THEN "Some" ELSE "None"
    /\ main_pc' = "listen"
    /\ UNCHANGED <<platform, starts, exit_status, subscribed,
                   plaintext_listener, tls_listener>>
    /\ UNCHANGED <<bridge_vars, loader, accept_vars>>

\* Mutant: the setup closure goes on to the listener threads without
\* registering the "ts-response" listener.
ListenTsResponseSkipped ==
    /\ main_pc = "listen"
    /\ main_pc' = "spawn_plaintext"
    /\ UNCHANGED <<platform, starts, disk, trust_store, exit_status,
                   newly_created, tls_state, tls_result, trust_ops, subscribed,
                   plaintext_listener, tls_listener>>
    /\ UNCHANGED <<bridge_vars, loader, accept_vars>>

\* main_window.listen("ts-response", ...)
ListenTsResponse ==
    /\ main_pc = "listen"
    /\ subscribed' = TRUE
    /\ main_pc' = "spawn_plaintext"
    /\ UNCHANGED <<platform, starts, disk, trust_store, exit_status,
                   newly_created, tls_state, tls_result, trust_ops,
                   plaintext_listener, tls_listener>>
    /\ UNCHANGED <<bridge_vars, loader, accept_vars>>

\* std::thread::spawn of the plaintext listener thread.
SpawnPlaintext ==
    /\ main_pc = "spawn_plaintext"
    /\ plaintext_listener' = "starting"
    /\ main_pc' = "spawn_tls"
    /\ UNCHANGED <<platform, starts, disk, trust_store, exit_status,
                   newly_created, tls_state, tls_result, trust_ops, subscribed,
                   tls_listener>>
    /\ UNCHANGED <<bridge_vars, loader, accept_vars>>

\* Mutant: the TLS listener thread is spawned whatever tls_state is.
SpawnTlsUnconditional ==
    /\ main_pc = "spawn_tls"
    /\ tls_listener' = "starting"
    /\ main_pc' = "running"
    /\ UNCHANGED <<platform, starts, disk, trust_store, exit_status,
                   newly_created, tls_state, tls_result, trust_ops, subscribed,
                   plaintext_listener>>
    /\ UNCHANGED <<bridge_vars, loader, accept_vars>>

\* if let Some(tls_state) = tls_state { std::thread::spawn(...) } else
\* { eprintln!("HTTPS server not started ...") }, and the closure returns.
SpawnTls ==
    /\ main_pc = "spawn_tls"
    /\ tls_listener' = IF tls_state = "Some" THEN "starting" ELSE "not_started"
    /\ main_pc' = "running"
    /\ UNCHANGED <<platform, starts, disk, trust_store, exit_status,
                   newly_created, tls_state, tls_result, trust_ops, subscribed,
                   plaintext_listener>>
    /\ UNCHANGED <<bridge_vars, loader, accept_vars>>

\* The streams listener.accept() returns, in the order it returns them.
Conns == 1..MaxConns

\* No stream has been accepted: no task has been spawned.
NoConnections == [c \in Conns |-> "none"]

\* A line written with eprintln! by the accept loop or by the task of
\* connection c (NoConn for the loop itself).
NoConn == 0
AcceptLine(line, c) == [line |-> line, conn |-> c]

\* The TLS listener has accepted nothing and logged nothing.
NoTlsConnections ==
    /\ connections = NoConnections
    /\ accept_errors = 0
    /\ accept_log = AcceptLine("none", NoConn)

\* The process ends: its threads and its subscription go with it; the files
\* and the trust stores stay.
ProcessEnds(status) ==
    /\ main_pc' = "not_running"
    /\ exit_status' = status
    /\ subscribed' = FALSE
    /\ plaintext_listener' = "stopped"
    /\ tls_listener' = "stopped"
    /\ connections' = NoConnections
    /\ UNCHANGED <<platform, starts, disk, trust_store, newly_created,
                   tls_state, tls_result, trust_ops>>
    /\ UNCHANGED <<accept_errors, accept_log>>

\* The plaintext listener thread: the runtime is built (expect panics the
\* thread otherwise), then Server::try_bind; Err logs and calls
\* std::process::exit(1).
PlaintextThread(outcome) ==
    /\ plaintext_listener = "starting"
    /\ IF outcome = "bind_failed"
       THEN ProcessEnds("exit_1")
       ELSE /\ plaintext_listener' =
                  IF outcome = "bound" THEN "serving" ELSE "panicked"
            /\ UNCHANGED <<platform, starts, disk, trust_store, main_pc,
                           exit_status, newly_created, tls_state, tls_result,
                           trust_ops, subscribed, tls_listener>>
            /\ UNCHANGED accept_vars
    /\ UNCHANGED <<bridge_vars, loader>>

\* The TLS listener thread: the runtime is built, then TcpListener::bind;
\* Err logs and returns from the thread.
TlsThread(outcome) ==
    /\ tls_listener = "starting"
    /\ tls_listener' =
          CASE outcome = "runtime_failed" -> "panicked"
            [] outcome = "bind_failed" -> "bind_failed"
            [] outcome = "bound" -> "serving"
    /\ UNCHANGED <<platform, starts, disk, trust_store, main_pc, exit_status,
                   newly_created, tls_state, tls_result, trust_ops, subscribed,
                   plaintext_listener>>
    /\ UNCHANGED <<bridge_vars, loader, accept_vars>>

\* The user quits the application once it is up.
Quit ==
    /\ main_pc = "running"
    /\ ProcessEnds("quit")
    /\ UNCHANGED <<bridge_vars, loader>>

\* ------------------------------------------------------ TLS accept loop
AcceptOutcomes == {"ok", "err"}

\* The number of streams accepted so far.
Accepted == Cardinality({c \in Conns : connections[c] # "none"})

\* Mutant: an accept error ends the loop (as `listener.accept().await?`
\* would).
TlsAcceptBreaksOnError(outcome) ==
    /\ tls_listener = "serving"
    /\ IF outcome = "ok"
       THEN /\ Accepted < MaxConns
            /\ connections' =
                  [connections EXCEPT ![Accepted + 1] = "handshaking"]
            /\ UNCHANGED <<accept_errors, accept_log, tls_listener>>
       ELSE /\ accept_errors < MaxAcceptErrors
            /\ accept_errors' = accept_errors + 1
            /\ accept_log' = AcceptLine("HTTPS TCP accept error", NoConn)
            /\ tls_listener' = "accept_failed"
            /\ UNCHANGED connections
    /\ UNCHANGED <<platform, starts, disk, trust_store, main_pc, exit_status,
                   newly_created, tls_state, tls_result, trust_ops, subscribed,
                   plaintext_listener>>
    /\ UNCHANGED <<bridge_vars, loader>>

\* One turn of loop { match listener.accept().await { .. } }: Ok spawns the
\* task of the stream with tokio::spawn, Err is logged; either way the loop
\* goes back to accept.
TlsAccept(outcome) ==
    /\ tls_listener = "serving"
    /\ IF outcome = "ok"
       THEN /\ Accepted < MaxConns
            /\ connections' =
                  [connections EXCEPT ![Accepted + 1] = "handshaking"]
            /\ UNCHANGED <<accept_errors, accept_log>>
       ELSE /\ accept_errors < MaxAcceptErrors
            /\ accept_errors' = accept_errors + 1
            /\ accept_log' = AcceptLine("HTTPS TCP accept error", NoConn)
            /\ UNCHANGED connections
    /\ UNCHANGED startup_vars
    /\ UNCHANGED <<bridge_vars, loader>>

\* The task of connection c: tls_acceptor.accept(stream).await. Ok goes on to
\* serve the connection, Err is logged and the task ends.
TlsHandshake(c, outcome) ==
    /\ tls_listener = "serving"
    /\ connections[c] = "handshaking"
    /\ IF outcome = "ok"
       THEN /\ connections' = [connections EXCEPT ![c] = "serving"]
            /\ UNCHANGED accept_log
       ELSE /\ connections' = [connections EXCEPT ![c] = "handshake_failed"]
            /\ accept_log' = AcceptLine("TLS handshake error", c)
    /\ UNCHANGED accept_errors
    /\ UNCHANGED startup_vars
    /\ UNCHANGED <<bridge_vars, loader>>

\* The task of connection c: Http::new().serve_connection(tls_stream,
\* service).await returns, Ok when the connection is done with, Err (logged)
\* on a connection error; the task ends.
ServeConnection(c, outcome) ==
    /\ tls_listener = "serving"
    /\ connections[c] = "serving"
    /\ IF outcome = "ok"
       THEN /\ connections' = [connections EXCEPT ![c] = "closed"]
            /\ UNCHANGED accept_log
       ELSE /\ connections' = [connections EXCEPT ![c] = "connection_error"]
            /\ accept_log' = AcceptLine("HTTPS connection error", c)
    /\ UNCHANGED accept_errors
    /\ UNCHANGED startup_vars
    /\ UNCHANGED <<bridge_vars, loader>>

\* Before the first start: no file, nothing trusted, no process.
NotStarted ==
    /\ platform \in Platforms
    /\ starts = 0
    /\ disk = NoFiles
    /\ trust_store = NoTrust
    /\ main_pc = "not_running"
    /\ exit_status = "none"
    /\ newly_created = FALSE
    /\ tls_state = "None"
    /\ tls_result = "none"
    /\ trust_ops = {}
    /\ subscribed = FALSE
    /\ plaintext_listener = "not_spawned"
    /\ tls_listener = "not_spawned"

\* The first start on Linux went through and both listeners are bound: the
\* state in which the bridge serves requests.
Serving ==
    /\ platform = "linux"
    /\ starts = 1
    /\ disk = [cert |-> 1, key |-> 1, der |-> 1]
    /\ trust_store = [os |-> 1, ca_file |-> 1, nss |-> 1]
    /\ main_pc = "running"
    /\ exit_status = "none"
    /\ newly_created = TRUE
    /\ tls_state = "Some"
    /\ tls_result = "ok"
    /\ trust_ops = {"fs::copy", "trust anchor", "certutil -D", "certutil -A"}
    /\ subscribed = TRUE
    /\ plaintext_listener = "serving"
    /\ tls_listener = "serving"

\* Application starts, one after the other, with no request in flight.
StartupNext ==
    \/ Launch
    \/ \E dir_ok \in BOOLEAN, gen \in GenerateOutcomes, env \in TrustEnvs :
          EnsureLocalhostTls(dir_ok, gen, env)
    \/ ListenTsResponse
    \/ SpawnPlaintext
    \/ SpawnTls
    \/ \E outcome \in ThreadOutcomes : PlaintextThread(outcome)
    \/ \E outcome \in ThreadOutcomes : TlsThread(outcome)
    \/ Quit

\* No request has been made and the application has never been started.
StartupInit == Init /\ NotStarted /\ loader = NoLoad /\ NoTlsConnections

StartupSpec == StartupInit /\ [][StartupNext]_vars

\* No request has been made yet and both listeners are up.
ServingInit == Init /\ Serving /\ loader = NoLoad /\ NoTlsConnections

\* Requests arrive until the counter is about to hand out an id for the
\* second time: no id is ever reused.
Next ==
    \/ \E r \in Handlers, m \in Methods :
          /\ wraps = 0
          /\ HandleRequest(r, m)
    \/ \E r \in Handlers : HandlerStep(r)
    \/ Environment

Spec == ServingInit /\ [][Next]_vars

\* The runtimes run every handler that is ready; requests, replies and
\* disconnects are up to the environment.
Fairness == \A r \in Handlers : WF_vars(HandlerStep(r))

FairSpec == Spec /\ Fairness

\* Requests keep arriving after the counter has wrapped, until the first id
\* (1) has been handed out a second time.
NextWrap ==
    \/ \E r \in Handlers, m \in Methods :
          /\ wraps = 0 \/ (wraps = 1 /\ request_counter <= 1)
          /\ HandleRequest(r, m)
    \/ \E r \in Handlers : HandlerStep(r)
    \/ Environment

SpecWrap == ServingInit /\ [][NextWrap]_vars /\ Fairness

\* ---------------------------------------------------- loading stored files
\* The stored certificate and key files load_rustls_config may find.
LoadInputs ==
    [cert_file : CertFiles, key_file : KeyFiles, outcome : {NotLoaded}]

\* let config = load_rustls_config(&paths)?, on the stored files.
LoadRustlsConfig ==
    /\ loader.outcome = NotLoaded
    /\ loader' = [loader EXCEPT
                     !.outcome = load_pem(loader.cert_file, loader.key_file)]
    /\ UNCHANGED <<bridge_vars, startup_vars, accept_vars>>

LoadInit == Init /\ NotStarted /\ loader \in LoadInputs /\ NoTlsConnections

LoadNext == LoadRustlsConfig

\* load_rustls_config applied once to each pair of stored files.
LoadSpec == LoadInit /\ [][LoadNext]_vars

\* ------------------------------------------------------- TLS connections
\* The TLS listener has just bound its socket; the plaintext listener thread
\* is still on its way to try_bind.
TlsBound ==
    /\ platform = "linux"
    /\ starts = 1
    /\ disk = [cert |-> 1, key |-> 1, der |-> 1]
    /\ trust_store = [os |-> 1, ca_file |-> 1, nss |-> 1]
    /\ main_pc = "running"
    /\ exit_status = "none"
    /\ newly_created = TRUE
    /\ tls_state = "Some"
    /\ tls_result = "ok"
    /\ trust_ops = {"fs::copy", "trust anchor", "certutil -D", "certutil -A"}
    /\ subscribed = TRUE
    /\ plaintext_listener = "starting"
    /\ tls_listener = "serving"

AcceptInit == Init /\ TlsBound /\ loader = NoLoad /\ NoTlsConnections

\* Streams arrive at the TLS listener and their tasks run, while the
\* plaintext listener thread comes up (or ends the process) and until the
\* user quits.
AcceptNext ==
    \/ \E outcome \in AcceptOutcomes : TlsAccept(outcome)
    \/ \E c \in Conns, outcome \in AcceptOutcomes : TlsHandshake(c, outcome)
    \/ \E c \in Conns, outcome \in AcceptOutcomes : ServeConnection(c, outcome)
    \/ \E outcome \in ThreadOutcomes : PlaintextThread(outcome)
    \/ Quit

AcceptSpec == AcceptInit /\ [][AcceptNext]_vars

\* ----------------------------------------------------------------- claims
Awaiting(r) == pc[r] = "awaiting"
Returned(r, how) == pc[r] = "done" /\ exit[r] = how

\* The five headers of the CORS policy.
CorsPolicy ==
    {<<"Access-Control-Allow-Origin", "*">>,
     <<"Access-Control-Allow-Headers", "*">>,
     <<"Access-Control-Allow-Methods", "*">>,
     <<"Access-Control-Expose-Headers", "*">>,
     <<"Access-Control-Allow-Private-Network", "true">>}

\* C1. Correlation uniqueness: whatever the number of requests in flight and
\* the order of the replies, a caller that holds a reply holds one whose
\* request_id is the id allocated to its own request, and a response built
\* from a reply carries that reply's body and (converted) status.
C1_CorrelationUniqueness ==
    \A r \in Handlers :
        /\ rx[r].state = "sent" => rx[r].value.request_id = request_id[r]
        /\ Returned(r, "reply") =>
              /\ rx[r].state = "sent"
              /\ rx[r].value.request_id = request_id[r]
              /\ resp[r].body = rx[r].value.body
              /\ resp[r].status = StatusFromU16(rx[r].value.status)

\* The reply for id 2 arrived first: its caller has returned with it while
\* the caller of id 1 is still waiting.
C1_Witness ==
    \E r, q \in Handlers :
        /\ Returned(r, "reply") /\ request_id[r] = 2
        /\ Awaiting(q) /\ request_id[q] = 1 /\ rx[q].state = "open"

\* C2. Exactly-once resolution: a channel receives a reply only in a step
\* that takes the entry of that reply's id out of the table, the entry being
\* the receiving caller's own; a reply once delivered is never replaced; and
\* a reply whose id has no entry (already resolved or never registered) is
\* delivered to nobody.
C2_ExactlyOnce ==
    [][ /\ \A r \in Handlers :
              /\ (rx[r].state = "sent" /\ rx'[r].state = "sent")
                    => rx'[r] = rx[r]
              /\ (rx[r].state # "sent" /\ rx'[r].state = "sent")
                    => /\ rx'[r].value.request_id \in DOMAIN pending_requests
                       /\ pending_requests[rx'[r].value.request_id] = r
                       /\ rx'[r].value.request_id
                             \notin DOMAIN pending_requests'
        /\ \A payload \in Payloads :
              (/\ OnTsResponse(payload)
               /\ payload.kind = "json"
               /\ payload.value.request_id \notin DOMAIN pending_requests)
                 => rx' = rx
      ]_vars

\* A second reply for an id that was already resolved has been discarded:
\* the caller of that id still holds the first reply.
C2_Witness ==
    \E r \in Handlers :
        /\ Awaiting(r) /\ rx[r].state = "sent"
        /\ listener_log = LogLine("unknown_request_id", request_id[r])

\* C3. A forwarded request whose reply the webview never publishes is
\* eventually answered with 504: a caller that waits is eventually given a
\* reply, or has returned 504, or has gone away.
C3_EventuallyGatewayTimeout ==
    \A r \in Handlers :
        Awaiting(r) ~>
            \/ rx[r].state = "sent"
            \/ Returned(r, "gateway_timeout") /\ resp[r].status = 504
            \/ pc[r] = "idle"

\* C4. A caller that still waits is unblocked by a well-formed reply
\* carrying its id: the reply is put into its channel, and the caller then
\* returns a response built from it (unless it disconnects first).
C4_ReplyUnblocks ==
    /\ [][\A payload \in Payloads, r \in Handlers :
            (/\ OnTsResponse(payload)
             /\ payload.kind = "json"
             /\ Awaiting(r) /\ rx[r].state = "open"
             /\ payload.value.request_id = request_id[r])
               => rx'[r] = [state |-> "sent", value |-> payload.value]
         ]_vars
    /\ \A r \in Handlers :
          (Awaiting(r) /\ rx[r].state = "sent") ~>
              \/ pc[r] = "idle"
              \/ /\ Returned(r, "reply")
                 /\ rx[r].value.request_id = request_id[r]
                 /\ resp[r].body = rx[r].value.body
                 /\ resp[r].status = StatusFromU16(rx[r].value.status)

\* A caller has returned the reply published for its id.
C4_Witness ==
    \E r \in Handlers :
        /\ Returned(r, "reply")
        /\ rx[r].value.request_id = request_id[r]
        /\ resp[r].body = rx[r].value.body

\* C5. A waiting caller whose channel was closed without a reply returns
\* 504 "Gateway Timeout" and nothing else, and it does return (unless it
\* disconnects first).
C5_ClosedChannelGivesGatewayTimeout ==
    /\ [][\A r \in Handlers :
            (Awaiting(r) /\ rx[r].state = "closed" /\ pc'[r] = "done")
               => /\ resp'[r].status = 504
                  /\ resp'[r].body = "Gateway Timeout"
         ]_vars
    /\ \A r \in Handlers :
          (Awaiting(r) /\ rx[r].state = "closed") ~>
              \/ pc[r] = "idle"
              \/ /\ Returned(r, "gateway_timeout")
                 /\ resp[r].status = 504
                 /\ resp[r].body = "Gateway Timeout"

\* A caller whose sender was dropped has returned 504.
C5_Witness ==
    \E r \in Handlers :
        /\ Returned(r, "gateway_timeout")
        /\ rx[r].state = "closed"
        /\ resp[r].status = 504

\* C6. Unknown-reply safety: the listener, given a reply whose request_id has
\* no entry in the table, changes neither the table nor any caller (its
\* channel, its position, its response); it only logs the id.
C6_UnknownReplySafety ==
    [][\A payload \in Payloads :
          (/\ OnTsResponse(payload)
           /\ payload.kind = "json"
           /\ payload.value.request_id \notin DOMAIN pending_requests)
             => /\ UNCHANGED <<pending_requests, rx, pc, resp, exit,
                               request_id, request_counter>>
                /\ listener_log' =
                      LogLine("unknown_request_id", payload.value.request_id)
      ]_vars

\* A reply for an id that is not in the table was handled while a caller
\* waits with its entry in the table.
C6_Witness ==
    \E r \in Handlers :
        /\ Awaiting(r) /\ rx[r].state = "open"
        /\ request_id[r] \in DOMAIN pending_requests
        /\ listener_log.line = "unknown_request_id"
        /\ listener_log.request_id # request_id[r]

\* C7. A caller answered on the serialization or publish failure path gets
\* 500, and the table holds no entry for its id once it has returned, so no
\* later reply finds one.
C7_ForwardFailureRemovesEntry ==
    \A r \in Handlers :
        (Returned(r, "serialize_failed") \/ Returned(r, "emit_failed")) =>
            /\ resp[r].status = 500
            /\ request_id[r] \notin DOMAIN pending_requests
            /\ ~emitted[r]

\* Both failure paths were taken; a reply for one of the ids came afterwards
\* and found no entry.
C7_Witness ==
    \E r, q \in Handlers :
        /\ Returned(r, "serialize_failed")
        /\ Returned(q, "emit_failed")
        /\ listener_log = LogLine("unknown_request_id", request_id[q])

\* C8. A request whose body cannot be read is answered 400; no forward
\* event is published for it, no channel is created and no entry for its id
\* is ever in the table, neither while the body is read nor afterwards.
C8_BodyReadFailure ==
    \A r \in Handlers :
        /\ Returned(r, "bad_request") =>
              /\ resp[r].status = 400
              /\ ~emitted[r]
              /\ rx[r].state = "none"
              /\ request_id[r] \notin DOMAIN pending_requests
        /\ pc[r] = "reading" =>
              /\ ~emitted[r]
              /\ rx[r].state = "none"
              /\ request_id[r] \notin DOMAIN pending_requests

\* A request was answered 400 while another request waits in the table.
C8_Witness ==
    \E r, q \in Handlers :
        /\ Returned(r, "bad_request") /\ resp[r].status = 400
        /\ Awaiting(q) /\ request_id[q] \in DOMAIN pending_requests

\* C9. An OPTIONS request returns at once with an empty body and the CORS
\* headers; it allocates no id, inserts no entry and publishes no forward
\* event.
C9_OptionsShortCircuit ==
    [][\A r \in Handlers :
          HandleRequest(r, "OPTIONS") =>
             /\ UNCHANGED <<request_counter, pending_requests>>
             /\ pc'[r] = "done"
             /\ resp'[r].body = ""
             /\ resp'[r].status = 200
             /\ CorsPolicy \subseteq resp'[r].headers
             /\ ~emitted'[r]
             /\ request_id'[r] = NoId
             /\ rx'[r].state = "none"
      ]_vars

\* An OPTIONS request was answered while another request waits.
C9_Witness ==
    \E r, q \in Handlers :
        /\ Returned(r, "options") /\ resp[r].body = ""
        /\ Awaiting(q) /\ request_counter = 2

\* C10. CORS completeness: the response of every return statement (OPTIONS,
\* 400, both 500 paths, reply, 504) carries the five headers of the policy.
C10_CorsCompleteness ==
    \A r \in Handlers :
        pc[r] = "done" => CorsPolicy \subseteq resp[r].headers

\* The 504 return and an error return have both been taken.
C10_Witness ==
    \E r, q \in Handlers :
        /\ Returned(r, "gateway_timeout")
        /\ Returned(q, "emit_failed")
        /\ CorsPolicy \subseteq resp[r].headers
        /\ CorsPolicy \subseteq resp[q].headers

\* C11 as stated: a caller that returned a reply-derived response returned
\* exactly the status and the body of the reply in its channel, whatever u16
\* the status is.
C11_ExactStatusAndBody ==
    \A r \in Handlers :
        Returned(r, "reply") =>
            /\ resp[r].body = rx[r].value.body
            /\ resp[r].status = rx[r].value.status

\* C11. A caller that returned a reply-derived response returned the body
\* of the reply in its channel, and the reply's status when that is a status
\* code hyper accepts (100..999); for any other u16 it returned 200.
C11_StatusAndBodyFromReply ==
    \A r \in Handlers :
        Returned(r, "reply") =>
            /\ resp[r].body = rx[r].value.body
            /\ (rx[r].value.status >= 100 /\ rx[r].value.status <= 999)
                  => resp[r].status = rx[r].value.status
            /\ (rx[r].value.status < 100 \/ rx[r].value.status > 999)
                  => resp[r].status = 200

\* One caller returned a reply whose status is no HTTP status code, another
\* a reply whose status is one.
C11_Witness ==
    \E r, q \in Handlers :
        /\ Returned(r, "reply") /\ rx[r].value.status = 0
        /\ resp[r].status = 200 /\ resp[r].body = "b"
        /\ Returned(q, "reply") /\ rx[q].value.status = 404
        /\ resp[q].status = 404 /\ resp[q].body = "a"

\* C12. Request ids are fresh: the counter starts at 1; a request that is not
\* OPTIONS takes the current value of the one shared counter as its id and
\* advances the counter past it; the id is greater than every id held by
\* another handler or present in the table; the counter never goes back; and
\* no two handlers hold the same id.
C12_FreshIds ==
    /\ request_counter = 1
    /\ [][ /\ \A r \in Handlers :
                (pc[r] # "reading" /\ pc'[r] = "reading") =>
                    /\ request_id'[r] = request_counter
                    /\ wraps' = 0 => request_counter' = request_id'[r] + 1
                    /\ \A q \in Handlers \ {r} :
                          request_id'[q] < request_id'[r]
                    /\ \A i \in DOMAIN pending_requests' :
                          i < request_id'[r]
          /\ wraps' = 0 => request_counter' >= request_counter
        ]_vars
    /\ [](\A r, q \in Handlers :
            (r # q /\ request_id[r] # NoId) => request_id[r] # request_id[q])

\* Two requests are in flight with the first two ids, the second allocated
\* while the first one waits.
C12_Witness ==
    \E r, q \in Handlers :
        /\ Awaiting(r) /\ request_id[r] = 1
        /\ pc[q] = "reading" /\ request_id[q] = 2

\* C13. An id is never handed out while the table holds an entry for it, and
\* the insert of a new pending entry finds no entry under its id: it replaces
\* no sender and closes no other caller's channel.
C13_NoReuseWhileOutstanding ==
    [][\A r \in Handlers :
          /\ (pc[r] # "reading" /\ pc'[r] = "reading")
                => request_id'[r] \notin DOMAIN pending_requests
          /\ ReadBodyOk(r)
                => /\ request_id[r] \notin DOMAIN pending_requests
                   /\ \A q \in Handlers \ {r} : rx'[q] = rx[q]
      ]_vars

\* C14. The listener, given a payload that is empty or does not parse as a
\* TsResponse, only logs: the table, every channel and every caller stay as
\* they are, so a caller that waits keeps waiting with its entry in the
\* table.
C14_MalformedReplyDropped ==
    [][\A payload \in Payloads :
          (OnTsResponse(payload) /\ payload.kind \in {"empty", "malformed"})
             => /\ UNCHANGED <<pending_requests, rx, pc, resp, exit,
                               request_id, request_counter>>
                /\ listener_log' =
                      LogLine(IF payload.kind = "empty"
                              THEN "no_payload" ELSE "parse_failed", NoId)
                /\ \A r \in Handlers :
                      (/\ Awaiting(r) /\ rx[r].state = "open"
                       /\ request_id[r] \in DOMAIN pending_requests)
                         => /\ pc'[r] = "awaiting" /\ rx'[r].state = "open"
                            /\ request_id'[r] \in DOMAIN pending_requests'
      ]_vars

\* A payload that does not parse was handled while a caller waits; the
\* caller still waits and its entry is still in the table.
C14_Witness ==
    \E r \in Handlers :
        /\ listener_log = LogLine("parse_failed", NoId)
        /\ Awaiting(r) /\ rx[r].state = "open"
        /\ request_id[r] \in DOMAIN pending_requests
        /\ pending_requests[request_id[r]] = r

\* C15. A caller that disconnects removes nothing: the table keeps every key,
\* the entry of the caller's id only loses its receiver, and other entries
\* and channels stay as they are. The entry of a caller that went away stays
\* until the listener processes a reply carrying its id.
C15_DisconnectLeavesEntry ==
    [][ /\ \A r \in Handlers :
              Disconnect(r) =>
                 /\ DOMAIN pending_requests' = DOMAIN pending_requests
                 /\ \A i \in DOMAIN pending_requests :
                       pending_requests'[i] =
                          IF pending_requests[i] = r
                          THEN Orphan ELSE pending_requests[i]
                 /\ \A q \in Handlers \ {r} : rx'[q] = rx[q]
        /\ \A i \in DOMAIN pending_requests :
              pending_requests[i] = Orphan =>
                 \/ /\ i \in DOMAIN pending_requests'
                    /\ pending_requests'[i] = Orphan
                 \/ \E payload \in Payloads :
                       /\ payload.kind = "json"
                       /\ payload.value.request_id = i
                       /\ OnTsResponse(payload)
      ]_vars

\* The caller of id 1 went away while waiting; its entry is still in the
\* table while a later request, with id 2, waits.
C15_Witness ==
    \E r \in Handlers :
        /\ 1 \in DOMAIN pending_requests
        /\ pending_requests[1] = Orphan
        /\ Awaiting(r) /\ request_id[r] = 2

\* The setup closure has got past ensure_localhost_tls in this process.
PastEnsure == main_pc \in {"listen", "spawn_plaintext", "spawn_tls", "running"}

\* The thread of the TLS listener was spawned in this process.
TlsSpawned ==
    tls_listener \in {"starting", "serving", "bind_failed", "panicked"}

\* C16. Independent bind resilience: a listener whose bind fails is the only
\* thing that stops; the process keeps running and the other listener's
\* thread stays as it is.
C16_IndependentBindResilience ==
    [][ /\ PlaintextThread("bind_failed") =>
              /\ main_pc' = main_pc
              /\ tls_listener' = tls_listener
              /\ plaintext_listener' = "bind_failed"
        /\ TlsThread("bind_failed") =>
              /\ main_pc' = main_pc
              /\ plaintext_listener' = plaintext_listener
              /\ tls_listener' = "bind_failed"
      ]_vars

\* C17. The TLS listener thread exists only with a loaded TLS configuration;
\* when ensure_localhost_tls failed (directory, generation or persistence,
\* trust, load) tls_state is None and the TLS thread is never spawned; and
\* the plaintext listener thread is spawned whatever ensure_localhost_tls
\* returned.
C17_TlsFailureDisablesOnlyTls ==
    /\ TlsSpawned =>
          /\ tls_state = "Some" /\ tls_result = "ok"
          /\ load_rustls_config(disk) = "ok"
    /\ (PastEnsure /\ tls_result # "ok") =>
          /\ tls_state = "None"
          /\ tls_listener \in {"not_spawned", "not_started"}
    /\ (main_pc = "running" /\ tls_state = "None") =>
          tls_listener = "not_started"
    /\ main_pc \in {"spawn_tls", "running"} =>
          plaintext_listener \in {"starting", "serving", "panicked"}

\* The TLS context could not be loaded (and, in another start, generation
\* failed): the plaintext listener serves and the TLS listener was not
\* started.
C17_Witness ==
    /\ main_pc = "running"
    /\ tls_result = "load_failed"
    /\ load_rustls_config(disk) = "no_private_key"
    /\ plaintext_listener = "serving"
    /\ tls_listener = "not_started"

\* C18. No failure of the trust installer makes ensure_localhost_tls fail:
\* when the directory was there, generation did not fail and the files on
\* disk load, tls_state is Some and the TLS listener thread is spawned.
C18_TrustFailureNonFatal ==
    (/\ PastEnsure
     /\ tls_result \notin {"dir_failed", "generate_failed"}
     /\ load_rustls_config(disk) = "ok")
       => /\ tls_result = "ok"
          /\ tls_state = "Some"
          /\ main_pc = "running" => TlsSpawned

\* C19. ensure_localhost_tls goes without generating only when all three
\* files exist: when one of cert, key and der is missing, generation runs
\* (it succeeds, or it fails and ends the bootstrap).
C19_BundleValidOnlyWithAllThree ==
    [][\A dir_ok \in BOOLEAN, gen \in GenerateOutcomes, env \in TrustEnvs :
          (/\ EnsureLocalhostTls(dir_ok, gen, env)
           /\ dir_ok
           /\ Absent \in {disk.cert, disk.key, disk.der})
             => (newly_created' \/ tls_result' = "generate_failed")
      ]_vars

\* The certificate of this bundle is in every trust store of the platform.
AlreadyTrusted ==
    /\ trust_store.os = disk.cert
    /\ platform = "linux" =>
          (trust_store.ca_file = disk.cert /\ trust_store.nss = disk.cert)

\* C20. Idempotent bootstrap: a run of ensure_localhost_tls that finds the
\* three files of one generation on disk and their certificate trusted (and
\* the platform's tools working, so that the trust can be seen) reports
\* newly_created = false, leaves the files as they are and runs no
\* trust-store command.
C20_IdempotentBootstrap ==
    [][\A dir_ok \in BOOLEAN, gen \in GenerateOutcomes, env \in TrustEnvs :
          (/\ EnsureLocalhostTls(dir_ok, gen, env)
           /\ disk.cert >= 1 /\ disk.key = disk.cert /\ disk.der = disk.cert
           /\ AlreadyTrusted
           /\ env.tools = "ok")
             => /\ ~newly_created'
                /\ disk' = disk
                /\ trust_ops' = {}
                /\ trust_store' = trust_store
      ]_vars

\* Some certificate is found by the installer's label in every trust store
\* of the platform: a probe for existing trust succeeds.
TrustFound ==
    /\ trust_store.os # Absent
    /\ platform = "linux" =>
          (trust_store.ca_file # Absent /\ trust_store.nss # Absent)

\* C21. When the bundle is not newly created and a certificate is found
\* under the installer's label (the tools working), the trust installer runs
\* no trust-store command and leaves the trust stores as they are, on every
\* platform.
C21_ProbeSkipsInstallation ==
    [][\A dir_ok \in BOOLEAN, gen \in GenerateOutcomes, env \in TrustEnvs :
          (/\ EnsureLocalhostTls(dir_ok, gen, env)
           /\ dir_ok /\ env.home /\ env.tools = "ok"
           /\ ~NeedsGeneration(disk)
           /\ TrustFound)
             => /\ trust_ops' = {}
                /\ trust_store' = trust_store
      ]_vars

\* C22. When the bundle is newly created, or is not but no trust is found,
\* the installer runs the trust-store command of the platform in that start
\* (its environment being in order: HOME set, tools working, directory
\* writable); so an installation that failed is tried again in a later start.
C22_MissingTrustIsInstalled ==
    [][\A dir_ok \in BOOLEAN, gen \in GenerateOutcomes, env \in TrustEnvs :
          (/\ EnsureLocalhostTls(dir_ok, gen, env)
           /\ dir_ok /\ env.home /\ env.tools = "ok" /\ env.ca_dir = "ok"
           /\ tls_result' # "generate_failed"
           /\ disk'.cert >= 1 /\ disk'.key >= 1 /\ disk'.der >= 1
           /\ newly_created' \/ trust_store.os = Absent)
             => /\ trust_ops' # {}
                /\ trust_store'.os # Absent
      ]_vars

\* A listener thread exists in this process.
ListenerThreadExists ==
    \/ plaintext_listener \in {"starting", "serving", "panicked"}
    \/ TlsSpawned

\* C23. The certificate flow runs once per start, in the order existence
\* check, generation if needed, trust installation, TLS context load:
\* generation happens only when the check asks for it; the trust installer
\* runs only when generation did not fail, on the files generation left, and
\* before the load, whose failure does not undo it; the load is reached only
\* when the installer returned Ok. No listener thread exists before the flow
\* has ended.
C23_CertificateFlowOrder ==
    /\ [][\A dir_ok \in BOOLEAN, gen \in GenerateOutcomes, env \in TrustEnvs :
            EnsureLocalhostTls(dir_ok, gen, env) =>
               LET trusted == trust_certificate(platform, disk', trust_store,
                                                newly_created', env)
               IN /\ newly_created' => NeedsGeneration(disk)
                  /\ (dir_ok /\ NeedsGeneration(disk))
                        => (newly_created' \/ tls_result' = "generate_failed")
                  /\ tls_result' \in {"dir_failed", "generate_failed"}
                        => (trust_ops' = {} /\ trust_store' = trust_store)
                  /\ tls_result' \in {"trust_failed", "ok", "load_failed"}
                        => /\ trust_ops' = trusted.ops
                           /\ trust_store' = trusted.store
                  /\ tls_result' = "trust_failed" => ~trusted.ok
                  /\ tls_result' \in {"ok", "load_failed"}
                        => /\ trusted.ok
                           /\ tls_result' = "ok"
                                 <=> load_rustls_config(disk') = "ok"
         ]_vars
    /\ [][ /\ tls_result' # tls_result
                => (main_pc = "ensure_tls" \/ main_pc' = "ensure_tls")
           /\ (main_pc # "ensure_tls" /\ main_pc' = "ensure_tls")
                => starts' = starts + 1
         ]_vars
    /\ [](ListenerThreadExists => (PastEnsure /\ tls_result # "none"))

\* The flow has ended with a new bundle, trusted and loaded, and no listener
\* thread has been spawned yet.
C23_Witness ==
    /\ main_pc = "listen"
    /\ tls_result = "ok" /\ newly_created
    /\ trust_ops # {} /\ trust_store.os = disk.cert
    /\ plaintext_listener = "not_spawned"
    /\ tls_listener = "not_spawned"

\* What the two stored files yield: a certificate chain, and the keys in an
\* encoding (none when the file is missing or cannot be decoded).
ChainYielded ==
    /\ loader.cert_file.exists
    /\ ~Undecodable(loader.cert_file)
    /\ \E i \in 1..Len(loader.cert_file.sections) :
          loader.cert_file.sections[i].label = "CERTIFICATE"
KeysYielded(label) ==
    IF loader.key_file.exists /\ ~Undecodable(loader.key_file)
    THEN SelectSeq(loader.key_file.sections, LAMBDA x : x.label = label)
    ELSE <<>>
LoadDone == loader.outcome # NotLoaded

\* C24 as stated. Loading succeeds exactly when the certificate file yields a
\* non-empty chain and the key file yields at least one PKCS#8 key or, only
\* if it yields none, at least one RSA key; the RSA encoding is never
\* consulted when the PKCS#8 encoding yielded a key.
C24_LoadSucceedsExactlyWhenKeyYielded ==
    LoadDone =>
       /\ loader.outcome.result = "ok"
             <=> /\ ChainYielded
                 /\ \/ KeysYielded("PRIVATE KEY") # <<>>
                    \/ /\ KeysYielded("PRIVATE KEY") = <<>>
                       /\ KeysYielded("RSA PRIVATE KEY") # <<>>
       /\ KeysYielded("PRIVATE KEY") # <<>> => ~loader.outcome.rsa_consulted

\* C24, amended. Loading succeeds exactly when the certificate file yields a
\* non-empty chain and the first key of the PKCS#8 encoding or, only if that
\* encoding yields no key, the first key of the RSA encoding, is one the TLS
\* configuration accepts; an empty chain or no key after the fallback is an
\* error; the RSA encoding is consulted exactly when the chain was yielded
\* and the PKCS#8 encoding yielded no key.
C24_LoadSucceedsWhenFirstKeyUsable ==
    LoadDone =>
       /\ loader.outcome.result = "ok"
             <=> /\ ChainYielded
                 /\ \/ /\ KeysYielded("PRIVATE KEY") # <<>>
                       /\ KeysYielded("PRIVATE KEY")[1].body = "der"
                    \/ /\ KeysYielded("PRIVATE KEY") = <<>>
                       /\ KeysYielded("RSA PRIVATE KEY") # <<>>
                       /\ KeysYielded("RSA PRIVATE KEY")[1].body = "der"
       /\ loader.cert_file.exists /\ ~Undecodable(loader.cert_file)
             /\ ~ChainYielded
             => loader.outcome.result = "no_certificates"
       /\ ChainYielded /\ loader.key_file.exists
             /\ ~Undecodable(loader.key_file)
             /\ KeysYielded("PRIVATE KEY") = <<>>
             /\ KeysYielded("RSA PRIVATE KEY") = <<>>
             => loader.outcome.result = "no_private_key"
       /\ loader.outcome.rsa_consulted
             <=> /\ ChainYielded
                 /\ loader.key_file.exists /\ ~Undecodable(loader.key_file)
                 /\ KeysYielded("PRIVATE KEY") = <<>>

\* A key file without a PKCS#8 key and with an RSA key was loaded through
\* the fallback.
C24_Witness ==
    /\ LoadDone
    /\ loader.outcome.result = "ok"
    /\ loader.outcome.rsa_consulted
    /\ KeysYielded("PRIVATE KEY") = <<>>
    /\ KeysYielded("RSA PRIVATE KEY") # <<>>

\* Handler r owns the table entry of its request id.
OwnsEntry(r) ==
    /\ request_id[r] \in DOMAIN pending_requests
    /\ pending_requests[request_id[r]] = r

\* C25. The pending entry is inserted before the forward event is published:
\* at the step that publishes handler r's event the entry of its id is in
\* the table, and while r waits on an open channel after the event the
\* entry stays there, so a Reply published after the event finds it; the
\* only exception is an entry a Reply has already resolved (the channel is
\* then no longer open).
C25_InsertBeforePublish ==
    /\ [][\A r \in Handlers :
            (~emitted[r] /\ emitted'[r])
               => /\ pc[r] = "inserted"
                  /\ rx[r].state = "open" => (OwnsEntry(r) /\ OwnsEntry(r)')
                  /\ rx[r].state # "open" =>
                        request_id[r] \notin DOMAIN pending_requests
         ]_vars
    /\ [](\A r \in Handlers :
            (Awaiting(r) /\ emitted[r] /\ rx[r].state = "open")
               => OwnsEntry(r))

\* A Reply published after a caller's event found the caller's entry: the
\* caller waits with the reply in its channel and the entry is resolved.
C25_Witness ==
    \E r \in Handlers :
        /\ Awaiting(r) /\ emitted[r]
        /\ rx[r].state = "sent"
        /\ rx[r].value.request_id = request_id[r]
        /\ request_id[r] \notin DOMAIN pending_requests

\* Handler r returns a response for a request that was given an id (400, 500,
\* reply-derived or 504) in this step.
ReturnsForId(r) ==
    /\ pc[r] # "done" /\ pc'[r] = "done"
    /\ exit'[r] \in {"bad_request", "serialize_failed", "emit_failed",
                     "reply", "gateway_timeout"}

C27_OnlyReplyOrOwnerRemoves ==
    [][\A i \in DOMAIN pending_requests :
          (\/ i \notin DOMAIN pending_requests'
           \/ pending_requests'[i] \notin {pending_requests[i], Orphan})
             => \/ \E payload \in Payloads :
                      /\ payload.kind = "json"
                      /\ payload.value.request_id = i
                      /\ OnTsResponse(payload)
                \/ \E r \in Handlers :
                      /\ pending_requests[i] = r
                      /\ request_id[r] = i
                      /\ \E outcome \in ForwardOutcomes \ {"ok"} :
                            Forward(r, outcome)
      ]_vars
    /\ [][\A i \in DOMAIN pending_requests :
            (/\ i \in DOMAIN pending_requests'
             /\ pending_requests'[i] # pending_requests[i])
               => /\ pending_requests'[i] = Orphan
                  /\ pending_requests[i] \in Handlers
                  /\ Disconnect(pending_requests[i])
         ]_vars

\* The owner of one entry has returned 500 from a failure path and its
\* entry is gone, while the entry of another caller is still in the table.
C27_Witness ==
    \E r, q \in Handlers :
        /\ r # q
        /\ pc[r] = "done"
        /\ exit[r] \in {"serialize_failed", "emit_failed"}
        /\ request_id[r] \notin DOMAIN pending_requests
        /\ OwnsEntry(q)

\* C28. Before the counter wraps every key in the table is at least 1 and
\* below the counter, and so is every id a handler holds; the counter starts
\* at 1 and never decreases.
C28_KeysBelowCounter ==
    /\ request_counter = 1
    /\ [](wraps = 0 =>
            /\ request_counter >= 1
            /\ \A key \in DOMAIN pending_requests :
                  1 <= key /\ key < request_counter
            /\ \A r \in Handlers :
                  request_id[r] # NoId =>
                     (1 <= request_id[r] /\ request_id[r] < request_counter))
    /\ [][wraps' = 0 => request_counter' >= request_counter]_vars

\* The table holds the key just below the counter, and the counter has
\* advanced past 1.
C28_Witness ==
    /\ wraps = 0
    /\ request_counter > 1
    /\ (request_counter - 1) \in DOMAIN pending_requests

\* A listener accepts connections, so that a handler can publish a forward
\* event.
CanPublishForward ==
    plaintext_listener = "serving" \/ tls_listener = "serving"

\* C29. The reply subscription is registered before either listener starts
\* accepting: it is registered in one step of each start, taken while neither
\* listener thread has been spawned, and it lasts as long as the process; a
\* listener thread that exists, and so every state in which a forward event
\* can be published, has the subscription in place.
C29_SubscribedBeforeListening ==
    /\ [][(~subscribed /\ subscribed')
             => /\ ListenTsResponse
                /\ plaintext_listener = "not_spawned"
                /\ tls_listener = "not_spawned"
         ]_vars
    /\ [][(subscribed /\ ~subscribed') => main_pc' = "not_running"]_vars
    /\ [](ListenerThreadExists => subscribed)
    /\ [](CanPublishForward => subscribed)

\* Both listeners accept connections and the subscription is registered.
C29_Witness ==
    /\ subscribed
    /\ plaintext_listener = "serving"
    /\ tls_listener = "serving"
    /\ main_pc = "running"
    /\ starts >= 1

\* C30. A Reply for an id whose caller has disconnected: the callback still
\* removes the entry, the failed send is only logged, and no other entry,
\* channel or handler is affected. The callback never blocks: it can run on
\* every payload in every state.
C30_ReplyAfterDisconnect ==
    /\ [][\A payload \in Payloads :
            (/\ OnTsResponse(payload)
             /\ payload.kind = "json"
             /\ payload.value.request_id \in DOMAIN pending_requests
             /\ pending_requests[payload.value.request_id] = Orphan)
               => /\ DOMAIN pending_requests' =
                        DOMAIN pending_requests \ {payload.value.request_id}
                  /\ \A i \in DOMAIN pending_requests' :
                        pending_requests'[i] = pending_requests[i]
                  /\ listener_log' =
                        LogLine("send_failed", payload.value.request_id)
                  /\ UNCHANGED <<rx, pc, resp, exit, request_id, emitted,
                                 request_counter>>
         ]_vars
    /\ [](\A payload \in Payloads : ENABLED OnTsResponse(payload))

\* The callback has logged a failed send for the id of a disconnected
\* caller and removed its entry, while another caller's entry is in place.
C30_Witness ==
    /\ listener_log.line = "send_failed"
    /\ listener_log.request_id \notin DOMAIN pending_requests
    /\ \E q \in Handlers : OwnsEntry(q) /\ rx[q].state = "open"

\* A connection's task has ended with a logged error.
FailedConn(c) == connections[c] \in {"handshake_failed", "connection_error"}

\* C31. Once bound, the TLS listener keeps accepting. An accept error is
\* logged and changes no connection; a failed handshake or a connection
\* error on connection c is logged and changes connection c only; none of
\* them ends the accept loop, which stops only when the process ends. While
\* the loop runs the next stream can be accepted whatever became of the
\* earlier ones, and each accepted connection proceeds on its own: its
\* handshake and its serving can go on whatever state the others are in.
C31_AcceptLoopResilience ==
    /\ [][(\E outcome \in AcceptOutcomes : TlsAccept(outcome))
             => /\ tls_listener' = "serving"
                /\ \A c \in Conns :
                      connections[c] # "none" =>
                         connections'[c] = connections[c]
                /\ accept_errors' # accept_errors =>
                      /\ connections' = connections
                      /\ accept_log' =
                            AcceptLine("HTTPS TCP accept error", NoConn)
         ]_vars
    /\ [][\A c \in Conns :
            (\/ TlsHandshake(c, "err")
             \/ ServeConnection(c, "err"))
               => /\ tls_listener' = "serving"
                  /\ FailedConn(c)'
                  /\ accept_log'.conn = c
                  /\ accept_log'.line \in
                        {"TLS handshake error", "HTTPS connection error"}
                  /\ \A d \in Conns \ {c} : connections'[d] = connections[d]
         ]_vars
    /\ [][(tls_listener = "serving" /\ tls_listener' # "serving")
             => main_pc' = "not_running"
         ]_vars
    /\ [](tls_listener = "serving" =>
            /\ Accepted < MaxConns => ENABLED TlsAccept("ok")
            /\ \A c \in Conns :
                  /\ connections[c] = "handshaking"
                        => ENABLED TlsHandshake(c, "ok")
                  /\ connections[c] = "serving"
                        => ENABLED ServeConnection(c, "ok"))

\* After an accept error, a failed handshake on the first connection and a
\* connection error on the second, the third connection is being served.
C31_Witness ==
    /\ tls_listener = "serving"
    /\ accept_errors >= 1
    /\ connections[1] = "handshake_failed"
    /\ connections[2] = "connection_error"
    /\ connections[3] = "serving"

\* The certificate and key files both exist and the TLS context cannot be
\* loaded from them.
UnusableBundle(files) ==
    /\ files.cert # Absent
    /\ files.key # Absent
    /\ load_rustls_config(files) # "ok"

\* C32. When the certificate and key files both exist but are unusable, no
\* start regenerates them: every run of ensure_localhost_tls that reaches the
\* existence check reports newly_created = false and leaves the files as
\* they are, the trust installer is run (for a bundle that is not new) and
\* its effects stay, the run then fails in the TLS context load, and the TLS
\* listener thread is not spawned in that start.
C32_UnusableFilesNeverRegenerated ==
    /\ [][\A dir_ok \in BOOLEAN, gen \in GenerateOutcomes, env \in TrustEnvs :
            (/\ EnsureLocalhostTls(dir_ok, gen, env)
             /\ dir_ok
             /\ UnusableBundle(disk))
               => /\ ~newly_created'
                  /\ disk' = disk
                  /\ trust_store' =
                        trust_certificate(platform, disk, trust_store,
                                          FALSE, env).store
                  /\ trust_ops' =
                        trust_certificate(platform, disk, trust_store,
                                          FALSE, env).ops
                  /\ tls_result' = "load_failed"
                  /\ tls_state' = "None"
         ]_vars
    /\ []((PastEnsure /\ UnusableBundle(disk)) => ~TlsSpawned)

=============================================================================
